---- MODULE Spec2Model ----
(***************************************************************************)
(* Model of zookeeper_challenge.py: the record parser, the per-species ID  *)
(* generator, the name pool and the habitat report of process_zoo_data.    *)
(* Python strings are sequences of one-character strings, so that split,   *)
(* strip, lower, capitalize, zfill and join are computed, not assumed.     *)
(***************************************************************************)
EXTENDS Integers, Sequences, FiniteSets, TLC

VARIABLES
    pc,              \* position of the caller in process_zoo_data
    input_exists,    \* whether there is a file at input_file's path
    names_file,      \* the file at names_file's path: [exists, lines]
    today,           \* the value date.today() returns now
    species_counts,  \* the module-level dict of gen_unique_id
    species_names,   \* the dict load_names returned, consumed by pop(0)
    loaded_names,    \* history: the dict as load_names returned it
    habitats,        \* the dict of output lines per species key
    lines,           \* f_in.readlines()
    idx,             \* index of the next line of the for loop
    out_opened,      \* whether output_file was opened for writing
    out_content,     \* what was written to f_out, write by write
    prints,          \* what print() emitted
    exc,             \* the exception that left process_zoo_data, or "none"
    ncalls,          \* history: calls of gen_unique_id per species key
    last_call,       \* history: the last call of gen_unique_id and its result
    runs,            \* history: completed or started calls of process_zoo_data
    p_line,          \* a line of the documented form, given to the record parser
    p_out            \* what the record parser made of p_line

vars == <<pc, input_exists, names_file, today, species_counts, species_names,
          loaded_names, habitats, lines, idx, out_opened, out_content, prints,
          exc, ncalls, last_call, runs, p_line, p_out>>

run_vars == <<input_exists, names_file, species_names, loaded_names, habitats,
              lines, idx, out_opened, out_content, prints, exc>>

----------------------------------------------------------------------------
(* Bounds *)

\* longest input file, in lines
MaxLines == 3
\* direct calls of gen_unique_id stop when a counter reaches this value
MaxCount == 101
\* calls of process_zoo_data by a client of the module
MaxRuns == 2

----------------------------------------------------------------------------
(* Python str methods on sequences of characters *)

UpperChars == <<"A", "B", "C", "D", "E", "F", "G", "H", "I", "J", "K", "L", "M", "N", "O", "P", "Q", "R", "S", "T", "U", "V", "W", "X", "Y", "Z">>
LowerChars == <<"a", "b", "c", "d", "e", "f", "g", "h", "i", "j", "k", "l", "m", "n", "o", "p", "q", "r", "s", "t", "u", "v", "w", "x", "y", "z">>
DigitChars == <<"0", "1", "2", "3", "4", "5", "6", "7", "8", "9">>

IsSpace(c) == c \in {" ", "\t", "\n"}
IsDigit(c) == \E i \in DOMAIN DigitChars : DigitChars[i] = c
DigitVal(c) == (CHOOSE i \in DOMAIN DigitChars : DigitChars[i] = c) - 1

LowerCh(c) ==
    IF \E i \in DOMAIN UpperChars : UpperChars[i] = c
    THEN LowerChars[CHOOSE i \in DOMAIN UpperChars : UpperChars[i] = c]
    ELSE c

UpperCh(c) ==
    IF \E i \in DOMAIN LowerChars : LowerChars[i] = c
    THEN UpperChars[CHOOSE i \in DOMAIN LowerChars : LowerChars[i] = c]
    ELSE c

lower(s) == [i \in DOMAIN s |-> LowerCh(s[i])]

capitalize(s) == [i \in DOMAIN s |-> IF i = 1 THEN UpperCh(s[i]) ELSE LowerCh(s[i])]

SetMin(S) == CHOOSE x \in S : \A y \in S : x <= y
SetMax(S) == CHOOSE x \in S : \A y \in S : x >= y

\* s.strip(): from the first to the last character that is not whitespace
strip(s) ==
    LET solid == {i \in DOMAIN s : ~IsSpace(s[i])}
    IN  IF solid = {} THEN <<>> ELSE SubSeq(s, SetMin(solid), SetMax(solid))

\* s.split(sep) for a one-character sep: one part more than there are separators
split(s, sep) ==
    LET at == {i \in DOMAIN s : s[i] = sep}
        cut(k) == IF k = 0 THEN 0
                  ELSE IF k = Cardinality(at) + 1 THEN Len(s) + 1
                  ELSE CHOOSE i \in at : Cardinality({j \in at : j <= i}) = k
    IN  [k \in 1..(Cardinality(at) + 1) |-> SubSeq(s, cut(k - 1) + 1, cut(k) - 1)]

\* s.split(): runs of whitespace separate, no empty token
split_ws(s) ==
    LET starts == {i \in DOMAIN s : ~IsSpace(s[i]) /\ (i = 1 \/ IsSpace(s[i - 1]))}
        start(k) == CHOOSE i \in starts : Cardinality({j \in starts : j <= i}) = k
        stop(i) == SetMin({j \in i..Len(s) : j = Len(s) \/ IsSpace(s[j + 1])})
    IN  [k \in 1..Cardinality(starts) |-> SubSeq(s, start(k), stop(start(k)))]

startswith(s, p) == Len(s) >= Len(p) /\ SubSeq(s, 1, Len(p)) = p

endswith(s, p) == Len(s) >= Len(p) /\ SubSeq(s, Len(s) - Len(p) + 1, Len(s)) = p

\* p in s
contains(s, p) == \E i \in 0..(Len(s) - Len(p)) : SubSeq(s, i + 1, i + Len(p)) = p

\* s.replace(old, new), old not empty: leftmost occurrences, not overlapping
RECURSIVE replace(_, _, _)
replace(s, old, new) ==
    IF s = <<>> THEN <<>>
    ELSE IF startswith(s, old)
         THEN new \o replace(SubSeq(s, Len(old) + 1, Len(s)), old, new)
         ELSE <<Head(s)>> \o replace(Tail(s), old, new)

\* sep.join(parts)
RECURSIVE join(_, _)
join(sep, parts) ==
    IF parts = <<>> THEN <<>>
    ELSE IF Len(parts) = 1 THEN parts[1]
    ELSE parts[1] \o sep \o join(sep, Tail(parts))

\* whether int(tok) succeeds, for a token without sign or underscore: a run of
\* decimal digits
is_int(tok) == tok # <<>> /\ \A i \in DOMAIN tok : IsDigit(tok[i])

\* int(tok)
RECURSIVE to_int(_)
to_int(tok) ==
    IF tok = <<>> THEN 0
    ELSE to_int(SubSeq(tok, 1, Len(tok) - 1)) * 10 + DigitVal(tok[Len(tok)])

\* str(n), n >= 0
RECURSIVE str(_)
str(n) ==
    IF n < 10 THEN <<DigitChars[n + 1]>>
    ELSE str(n \div 10) \o <<DigitChars[(n % 10) + 1]>>

\* s.zfill(w)
zfill(s, w) ==
    IF Len(s) >= w THEN s ELSE [i \in 1..(w - Len(s)) |-> "0"] \o s

----------------------------------------------------------------------------
(* Python dicts, in insertion order: sequences of <<key, value>> *)

dict_keys(d) == [i \in DOMAIN d |-> d[i][1]]

dict_has(d, k) == \E i \in DOMAIN d : d[i][1] = k

dict_get(d, k) == d[CHOOSE i \in DOMAIN d : d[i][1] = k][2]

\* d[k] = v: a new key goes last, an old key keeps its place
dict_set(d, k, v) ==
    IF dict_has(d, k)
    THEN [i \in DOMAIN d |-> IF d[i][1] = k THEN <<k, v>> ELSE d[i]]
    ELSE Append(d, <<k, v>>)

----------------------------------------------------------------------------
(* gen_birth_date, gen_unique_id *)

isoformat(d) ==
    zfill(str(d.year), 4) \o <<"-">> \o zfill(str(d.month), 2) \o <<"-">> \o zfill(str(d.day), 2)

season_dates ==
    << <<<<"s", "p", "r", "i", "n", "g">>, <<"-", "0", "3", "-", "2", "1">>>>, <<<<"s", "u", "m", "m", "e", "r">>, <<"-", "0", "6", "-", "2", "1">>>>,
       <<<<"f", "a", "l", "l">>, <<"-", "0", "9", "-", "2", "1">>>>, <<<<"w", "i", "n", "t", "e", "r">>, <<"-", "1", "2", "-", "2", "1">>>> >>

gen_birth_date(age_years, season_born, now) ==
    LET birth_year == now.year - age_years
        date_suffix == IF dict_has(season_dates, lower(season_born))
                       THEN dict_get(season_dates, lower(season_born))
                       ELSE <<"-", "0", "1", "-", "0", "1">>
    IN  str(birth_year) \o date_suffix

\* the counter after this call
next_count(counts, species_key) ==
    (IF dict_has(counts, species_key) THEN dict_get(counts, species_key) ELSE 0) + 1

id_prefix(species) == capitalize(SubSeq(species, 1, IF Len(species) < 2 THEN Len(species) ELSE 2))

\* variant: padded to three digits
count_str_3(count) == zfill(str(count), 3)

count_str(count) == zfill(str(count), 2)

\* gen_unique_id(species): the identifier and the counters after the call
gen_unique_id(species, counts) ==
    LET species_key == lower(species)
        count == next_count(counts, species_key)
    IN  [id |-> id_prefix(species) \o count_str(count),
         counts |-> dict_set(counts, species_key, count)]

----------------------------------------------------------------------------
(* load_names *)

names_of(line) == LET ns == split(line, ",") IN [i \in DOMAIN ns |-> strip(ns[i])]

\* the for loop of load_names over the lines that are left
RECURSIVE load_lines(_, _, _)
load_lines(ls, current_species, names_dict) ==
    IF ls = <<>> THEN names_dict
    ELSE LET line == strip(Head(ls))
         IN  IF endswith(line, <<"N", "a", "m", "e", "s", ":">>)
             THEN LET cs == lower(split_ws(line)[1])
                  IN  load_lines(Tail(ls), cs, dict_set(names_dict, cs, <<>>))
             ELSE IF line # <<>> /\ current_species # <<>>
             THEN load_lines(Tail(ls), current_species,
                             dict_set(names_dict, current_species,
                                      dict_get(names_dict, current_species) \o names_of(line)))
             ELSE load_lines(Tail(ls), current_species, names_dict)

\* load_names(file_path): the dict returned and what was printed
load_names(file) ==
    IF file.exists
    THEN [dict |-> load_lines(file.lines, <<>>, <<>>), printed |-> <<>>]
    ELSE [dict |-> <<>>, printed |-> <<"Error: names file not found.">>]

----------------------------------------------------------------------------
(* The record parser: lines 95 to 115 of process_zoo_data *)

Fault(kind) == [fault |-> kind]

season_of(segment) ==
    IF contains(segment, <<"b", "o", "r", "n", " ", "i", "n">>)
    THEN strip(replace(segment, <<"b", "o", "r", "n", " ", "i", "n">>, <<>>))
    ELSE <<"u", "n", "k", "n", "o", "w", "n">>

\* variant: parts[4] alone
origin_first_only(parts) == IF Len(parts) >= 5 THEN parts[5] ELSE <<>>

origin_of(parts) == join(<<",", " ">>, SubSeq(parts, 5, Len(parts)))

\* the fields of one stripped, non-blank line, or the exception raised
parse_record(line) ==
    LET raw == split(line, ",")
        parts == [i \in DOMAIN raw |-> strip(raw[i])]
        first_segment == split_ws(parts[1])
    IN  IF first_segment = <<>> THEN Fault("IndexError")
        ELSE IF ~is_int(first_segment[1]) THEN Fault("ValueError")
        ELSE IF Len(first_segment) < 4 THEN Fault("IndexError")
        ELSE IF Len(parts) < 4 THEN Fault("IndexError")
        ELSE [fault |-> "none",
              age |-> to_int(first_segment[1]),
              sex |-> first_segment[4],
              species |-> first_segment[Len(first_segment)],
              season |-> season_of(parts[2]),
              color |-> parts[3],
              weight |-> parts[4],
              origin |-> origin_of(parts)]

----------------------------------------------------------------------------
(* Name assignment and the report: lines 121 to 155 of process_zoo_data *)

\* variant: another placeholder
assign_name_unknown(names, species_key) ==
    IF dict_has(names, species_key) /\ dict_get(names, species_key) # <<>>
    THEN [name |-> Head(dict_get(names, species_key)),
          names |-> dict_set(names, species_key, Tail(dict_get(names, species_key)))]
    ELSE [name |-> <<"U", "n", "k", "n", "o", "w", "n">>, names |-> names]

\* variant: pop() instead of pop(0)
assign_name_last(names, species_key) ==
    IF dict_has(names, species_key) /\ dict_get(names, species_key) # <<>>
    THEN LET pool == dict_get(names, species_key)
         IN  [name |-> pool[Len(pool)],
              names |-> dict_set(names, species_key, SubSeq(pool, 1, Len(pool) - 1))]
    ELSE [name |-> <<"U", "n", "n", "a", "m", "e", "d">>, names |-> names]

\* the name of the next animal of species_key and the pools after pop(0)
assign_name(names, species_key) ==
    IF dict_has(names, species_key) /\ dict_get(names, species_key) # <<>>
    THEN [name |-> Head(dict_get(names, species_key)),
          names |-> dict_set(names, species_key, Tail(dict_get(names, species_key)))]
    ELSE [name |-> <<"U", "n", "n", "a", "m", "e", "d">>, names |-> names]

\* variant: the list is set anew on every line
habitat_replace(h, species_key, entry) == dict_set(h, species_key, <<entry>>)

\* habitats[species_key].append(output_line), the list created when missing
habitat_append(h, species_key, entry) ==
    dict_set(h, species_key,
             (IF dict_has(h, species_key) THEN dict_get(h, species_key) ELSE <<>>)
                 \o <<entry>>)

\* variant: lion before hyena
habitat_order_lion_first == <<<<"l", "i", "o", "n">>, <<"h", "y", "e", "n", "a">>, <<"b", "e", "a", "r">>, <<"t", "i", "g", "e", "r">>>>

habitat_order == <<<<"h", "y", "e", "n", "a">>, <<"l", "i", "o", "n">>, <<"b", "e", "a", "r">>, <<"t", "i", "g", "e", "r">>>>

in_seq(x, s) == \E i \in DOMAIN s : s[i] = x

\* the writes of one habitat: the header, its animals, the closing blank line
section(h, species) ==
    <<[kind |-> "header", text |-> capitalize(species) \o <<" ", "H", "a", "b", "i", "t", "a", "t", ":">>]>>
    \o [i \in DOMAIN dict_get(h, species) |->
           [kind |-> "animal", text |-> dict_get(h, species)[i].text,
            src |-> dict_get(h, species)[i].src]]
    \o <<[kind |-> "blank"]>>

RECURSIVE write_sections(_, _)
write_sections(h, order) ==
    IF order = <<>> THEN <<>>
    ELSE (IF dict_has(h, Head(order)) THEN section(h, Head(order)) ELSE <<>>)
         \o write_sections(h, Tail(order))

remaining_species(h) == SelectSeq(dict_keys(h), LAMBDA k : ~in_seq(k, habitat_order))

\* everything written to f_out, in order
serialize(h) ==
    write_sections(h, habitat_order) \o write_sections(h, remaining_species(h))

----------------------------------------------------------------------------
(* The files and the clock the program finds *)

Dates == << [year |-> 2026, month |-> 12, day |-> 31],
            [year |-> 2027, month |-> 1, day |-> 1] >>

LineHyena == <<"4", " ", "y", "e", "a", "r", " ", "o", "l", "d", " ", "f", "e", "m", "a", "l", "e", " ", "h", "y", "e", "n", "a", ",", " ", "b", "o", "r", "n", " ", "i", "n", " ", "s", "p", "r", "i", "n", "g", ",", " ", "t", "a", "n", ",", " ", "7", "0", " ", "l", "b", ",", " ", "f", "r", "o", "m", " ", "P", "a", "r", "k", ",", " ", "T", "u", "n", "i", "s">>
LineLion == <<"1", "2", " ", "y", "e", "a", "r", " ", "o", "l", "d", " ", "m", "a", "l", "e", " ", "L", "i", "o", "n", ",", " ", "u", "n", "k", "n", "o", "w", "n", ",", " ", "t", "a", "n", ",", " ", "3", "0", "0", " ", "l", "b", ",", " ", "f", "r", "o", "m", " ", "Z", "o", "o">>
LineZebra == <<"2", " ", "y", "e", "a", "r", " ", "o", "l", "d", " ", "m", "a", "l", "e", " ", "z", "e", "b", "r", "a", ",", " ", "b", "o", "r", "n", " ", "i", "n", " ", "f", "a", "l", "l", ",", " ", "s", "t", "r", "i", "p", "e", "d", ",", " ", "4", "0", "0", " ", "l", "b", ",", " ", "K", "e", "n", "y", "a">>
LineHyrax == <<"1", " ", "y", "e", "a", "r", " ", "o", "l", "d", " ", "f", "e", "m", "a", "l", "e", " ", "h", "y", "r", "a", "x", ",", " ", "b", "o", "r", "n", " ", "i", "n", " ", "w", "i", "n", "t", "e", "r", ",", " ", "g", "r", "e", "y", ",", " ", "9", " ", "l", "b", ",", " ", "C", "a", "p", "e", " ", "T", "o", "w", "n">>
LineBlank == <<" ", " ">>
LineShort == <<"3", " ", "y", "e", "a", "r", " ", "o", "l", "d", " ", "m", "a", "l", "e", " ", "l", "i", "o", "n", ",", " ", "b", "o", "r", "n", " ", "i", "n", " ", "f", "a", "l", "l">>
LineBadAge == <<"o", "l", "d", " ", "h", "y", "e", "n", "a">>
LineLongBadAge == <<"o", "n", "e", " ", "y", "e", "a", "r", " ", "o", "l", "d", " ", "m", "a", "l", "e", " ", "l", "i", "o", "n", ",", " ", "b", "o", "r", "n", " ", "i", "n", " ", "f", "a", "l", "l", ",", " ", "t", "a", "n", ",", " ", "9", " ", "l", "b", ",", " ", "Z", "o", "o">>

InputLines == {LineHyena, LineLion, LineZebra, LineHyrax, LineBlank, LineShort,
               LineBadAge, LineLongBadAge}

SeqsUpTo(S, n) == UNION {[1..k -> S] : k \in 0..n}

MissingFile == [exists |-> FALSE, lines |-> <<>>]

File(ls) == [exists |-> TRUE, lines |-> ls]

InputFiles == {MissingFile} \cup {File(ls) : ls \in SeqsUpTo(InputLines, MaxLines)}

NamesFiles ==
    { MissingFile,
      File(<<<<"Z", "e", "d">>, <<"H", "y", "e", "n", "a", " ", "N", "a", "m", "e", "s", ":">>, <<"A", "n", "n", ",", "B", "o", " ">>, <<>>, <<"L", "i", "o", "n", " ", "N", "a", "m", "e", "s", ":">>, <<" ", "C", "y">>>>) }

\* what a client of the module passes to process_zoo_data
ClientInputFiles == {MissingFile, File(<<LineHyena>>), File(<<LineHyrax, LineLion>>)}

\* what a client of the module passes to gen_unique_id
ClientSpecies == {<<"h", "y", "e", "n", "a">>, <<"H", "Y", "E", "N", "A">>}

----------------------------------------------------------------------------
(* The state machine *)

NoCall == [species |-> <<>>, key |-> <<>>, k |-> 0, id |-> <<>>]

NoLine == [line |-> <<>>]

\* lines of the form
\*   <age> year old <sex> <species>, <segment 1>, <color>, <weight>, <origin>
\* with what each part stands for
Ages == {[text |-> <<"4">>, value |-> 4], [text |-> <<"1", "2">>, value |-> 12]}
Sexes == {<<"f", "e", "m", "a", "l", "e">>, <<"m", "a", "l", "e">>}
SpeciesWords == {<<"h", "y", "e", "n", "a">>, <<"L", "i", "o", "n">>}
Segment1s ==
    { [text |-> <<"b", "o", "r", "n", " ", "i", "n", " ", "s", "p", "r", "i", "n", "g">>, born |-> TRUE, season |-> <<"s", "p", "r", "i", "n", "g">>],
      [text |-> <<"b", "o", "r", "n", " ", "i", "n", " ", "F", "a", "l", "l">>, born |-> TRUE, season |-> <<"F", "a", "l", "l">>],
      [text |-> <<"u", "n", "k", "n", "o", "w", "n", " ", "s", "e", "a", "s", "o", "n">>, born |-> FALSE, season |-> <<>>],
      [text |-> <<"B", "o", "r", "n", " ", "I", "n", " ", "f", "a", "l", "l">>, born |-> FALSE, season |-> <<>>] }
Colors == {<<"t", "a", "n", " ", "c", "o", "l", "o", "r">>, <<"r", "e", "d">>}
Weights == {<<"7", "0", " ", "p", "o", "u", "n", "d", "s">>}
Origins == {<<"f", "r", "o", "m", " ", "Z", "o", "o">>, <<"f", "r", "o", "m", " ", "F", "r", "i", "g", "u", "i", "a", " ", "P", "a", "r", "k", ",", " ", "T", "u", "n", "i", "s", "i", "a">>, <<"f", "r", "o", "m", " ", "A", ",", " ", "B", ",", " ", "C">>}

FormLines ==
    { [age |-> a, sex |-> x, species |-> sp, segment1 |-> s1, color |-> c,
       weight |-> w, origin |-> o,
       line |-> a.text \o <<" ", "y", "e", "a", "r", " ", "o", "l", "d", " ">> \o x \o <<" ">> \o sp \o <<",", " ">> \o s1.text
                \o <<",", " ">> \o c \o <<",", " ">> \o w \o <<",", " ">> \o o \o <<"\n">>] :
      a \in Ages, x \in Sexes, sp \in SpeciesWords, s1 \in Segment1s,
      c \in Colors, w \in Weights, o \in Origins }

Init ==
    /\ pc = "idle"
    /\ input_exists = FALSE
    /\ names_file = MissingFile
    /\ today = Dates[1]
    /\ species_counts = <<>>
    /\ species_names = <<>>
    /\ loaded_names = <<>>
    /\ habitats = <<>>
    /\ lines = <<>>
    /\ idx = 1
    /\ out_opened = FALSE
    /\ out_content = <<>>
    /\ prints = <<>>
    /\ exc = "none"
    /\ ncalls = <<>>
    /\ last_call = NoCall
    /\ runs = 0
    /\ p_line = NoLine
    /\ p_out = <<>>

\* variant: a bare except
uncaught_nothing(kind) == "none"

\* the exception that leaves process_zoo_data when kind is raised inside its
\* try block: only FileNotFoundError has an except clause
uncaught(kind) == IF kind = "FileNotFoundError" THEN "none" ELSE kind

\* variant: the except clause prints nothing
missing_input_silent(printed) == printed

\* what has been printed after the except clause ran
missing_input_prints(printed) == printed \o <<"Error: Input file not found.">>

\* process_zoo_data up to readlines(): lines 73 to 86, and 157 to 158
Call(inp, nam) ==
    LET loaded == load_names(nam)
    IN  /\ input_exists' = inp.exists
        /\ names_file' = nam
        /\ species_names' = loaded.dict
        /\ loaded_names' = loaded.dict
        /\ habitats' = <<>>
        /\ out_opened' = FALSE
        /\ out_content' = <<>>
        /\ idx' = 1
        /\ runs' = runs + 1
        /\ IF inp.exists
           THEN /\ lines' = inp.lines
                /\ prints' = loaded.printed
                /\ exc' = "none"
                /\ pc' = "loop"
           ELSE /\ lines' = <<>>
                /\ prints' = missing_input_prints(loaded.printed)
                /\ exc' = uncaught("FileNotFoundError")
                /\ pc' = "done"
        /\ UNCHANGED <<today, species_counts, ncalls, last_call, p_line, p_out>>

\* the program: one call of process_zoo_data per process, lines 160 to 168
Main(inp, nam) == pc = "idle" /\ Call(inp, nam)

\* a client of the module calls process_zoo_data again and again
ClientCall(inp, nam) == pc \in {"idle", "done"} /\ runs < MaxRuns /\ Call(inp, nam)

\* the history of gen_unique_id's calls
note_call(species, id) ==
    LET key == lower(species)
        k == (IF dict_has(ncalls, key) THEN dict_get(ncalls, key) ELSE 0) + 1
    IN  /\ ncalls' = dict_set(ncalls, key, k)
        /\ last_call' = [species |-> species, key |-> key, k |-> k, id |-> id]

arrival_date(now) == isoformat(now)

\* one iteration of the for loop: lines 88 to 135
ProcessLine ==
    /\ pc = "loop"
    /\ idx <= Len(lines)
    /\ \E line \in {strip(lines[idx])} :
       \E r \in {parse_record(line)} :
           IF line = <<>>
           THEN /\ idx' = idx + 1
                /\ UNCHANGED <<pc, exc, species_counts, species_names, habitats,
                               ncalls, last_call>>
           ELSE IF r.fault # "none"
           THEN /\ pc' = "done"
                /\ exc' = uncaught(r.fault)
                /\ UNCHANGED <<idx, species_counts, species_names, habitats,
                               ncalls, last_call>>
           ELSE \E made \in {gen_unique_id(r.species, species_counts)} :
                \E named \in {assign_name(species_names, lower(r.species))} :
                LET species_key == lower(r.species)
                    output_line == [unique_id |-> made.id, name |-> named.name,
                                    birth_date |-> gen_birth_date(r.age, r.season, today),
                                    color |-> r.color, sex |-> r.sex,
                                    weight |-> r.weight, origin |-> r.origin,
                                    arrival_date |-> arrival_date(today)]
                IN  /\ species_counts' = made.counts
                    /\ note_call(r.species, made.id)
                    /\ species_names' = named.names
                    /\ habitats' = habitat_append(habitats, species_key,
                                                  [text |-> output_line, src |-> idx])
                    /\ idx' = idx + 1
                    /\ UNCHANGED <<pc, exc>>
    /\ UNCHANGED <<input_exists, names_file, today, loaded_names, lines, out_opened,
                   out_content, prints, runs, p_line, p_out>>

\* after the loop: the report is written, lines 137 to 155
WriteReport ==
    /\ pc = "loop"
    /\ idx > Len(lines)
    /\ out_opened' = TRUE
    /\ out_content' = serialize(habitats)
    /\ pc' = "done"
    /\ UNCHANGED <<input_exists, names_file, today, species_counts, species_names,
                   loaded_names, habitats, lines, idx, prints, exc, ncalls,
                   last_call, runs, p_line, p_out>>

\* midnight passes while the input is being processed
Tick ==
    /\ pc = "loop"
    /\ today = Dates[1]
    /\ today' = Dates[2]
    /\ UNCHANGED <<pc, run_vars, species_counts, ncalls, last_call, runs, p_line, p_out>>

\* a client of the module calls gen_unique_id itself
GenUniqueId(species) ==
    /\ pc \in {"idle", "done"}
    /\ next_count(species_counts, lower(species)) <= MaxCount
    /\ LET made == gen_unique_id(species, species_counts)
       IN  /\ species_counts' = made.counts
           /\ note_call(species, made.id)
    /\ UNCHANGED <<pc, run_vars, today, runs, p_line, p_out>>

Next ==
    \/ \E inp \in InputFiles, nam \in NamesFiles : Main(inp, nam)
    \/ ProcessLine
    \/ WriteReport
    \/ Tick

Spec == Init /\ [][Next]_vars

\* the record parser applied to one line of the documented form
ParseLine ==
    /\ p_out = <<>>
    /\ p_out' = <<parse_record(strip(p_line.line))>>
    /\ UNCHANGED <<pc, run_vars, today, species_counts, ncalls, last_call, runs, p_line>>

ParseInit ==
    /\ p_line \in FormLines
    /\ p_out = <<>>
    /\ pc = "idle"
    /\ input_exists = FALSE
    /\ names_file = MissingFile
    /\ today = Dates[1]
    /\ species_counts = <<>>
    /\ species_names = <<>>
    /\ loaded_names = <<>>
    /\ habitats = <<>>
    /\ lines = <<>>
    /\ idx = 1
    /\ out_opened = FALSE
    /\ out_content = <<>>
    /\ prints = <<>>
    /\ exc = "none"
    /\ ncalls = <<>>
    /\ last_call = NoCall
    /\ runs = 0

ParseNext == ParseLine

ParseSpec == ParseInit /\ [][ParseNext]_vars

ClientNext ==
    \/ \E species \in ClientSpecies : GenUniqueId(species)
    \/ \E inp \in ClientInputFiles : ClientCall(inp, MissingFile)
    \/ ProcessLine
    \/ WriteReport

ClientSpec == Init /\ [][ClientNext]_vars

----------------------------------------------------------------------------
(* What the lines of InputLines say, read off their text *)

WellFormedLines == {LineHyena, LineLion, LineZebra, LineHyrax}

InputKeys == {<<"h", "y", "e", "n", "a">>, <<"l", "i", "o", "n">>, <<"z", "e", "b", "r", "a">>, <<"h", "y", "r", "a", "x">>}

\* the lowercased species of a well-formed line
LineKey(line) ==
    CASE line = LineHyena -> <<"h", "y", "e", "n", "a">>
      [] line = LineLion -> <<"l", "i", "o", "n">>
      [] line = LineZebra -> <<"z", "e", "b", "r", "a">>
      [] line = LineHyrax -> <<"h", "y", "r", "a", "x">>

HeaderText(key) ==
    CASE key = <<"h", "y", "e", "n", "a">> -> <<"H", "y", "e", "n", "a", " ", "H", "a", "b", "i", "t", "a", "t", ":">>
      [] key = <<"l", "i", "o", "n">> -> <<"L", "i", "o", "n", " ", "H", "a", "b", "i", "t", "a", "t", ":">>
      [] key = <<"z", "e", "b", "r", "a">> -> <<"Z", "e", "b", "r", "a", " ", "H", "a", "b", "i", "t", "a", "t", ":">>
      [] key = <<"h", "y", "r", "a", "x">> -> <<"H", "y", "r", "a", "x", " ", "H", "a", "b", "i", "t", "a", "t", ":">>

IsBlankLine(line) == \A i \in DOMAIN line : line[i] = " "

NumSegments(line) == Cardinality({i \in DOMAIN line : line[i] = ","}) + 1

IsShortLine(line) == ~IsBlankLine(line) /\ NumSegments(line) < 4

\* the input is well-formed: every line is blank or a full record
WellFormedInput == \A j \in DOMAIN lines : IsBlankLine(lines[j]) \/ lines[j] \in WellFormedLines

\* the lines of species key that the loop has gone through
AnimalsOf(key) ==
    {j \in 1..(idx - 1) : lines[j] \in WellFormedLines /\ LineKey(lines[j]) = key}

\* the species keys of the input, and where each is met first
PresentKeys == {key \in InputKeys : \E j \in DOMAIN lines :
                   lines[j] \in WellFormedLines /\ LineKey(lines[j]) = key}

FirstMet(key) ==
    SetMin({j \in DOMAIN lines : lines[j] \in WellFormedLines /\ LineKey(lines[j]) = key})

FixedOrder == <<<<"h", "y", "e", "n", "a">>, <<"l", "i", "o", "n">>, <<"b", "e", "a", "r">>, <<"t", "i", "g", "e", "r">>>>

FixedRank(key) == CHOOSE i \in DOMAIN FixedOrder : FixedOrder[i] = key

\* key a's habitat is to come before key b's in the report
Before(a, b) ==
    IF in_seq(a, FixedOrder)
    THEN in_seq(b, FixedOrder) => FixedRank(a) < FixedRank(b)
    ELSE ~in_seq(b, FixedOrder) /\ FirstMet(a) < FirstMet(b)

Headers == SelectSeq(out_content, LAMBDA w : w.kind = "header")

Written == SelectSeq(out_content, LAMBDA w : w.kind = "animal")

\* the header over the i-th write
HeaderOver(i) ==
    out_content[SetMax({h \in 1..i : out_content[h].kind = "header"})].text

ReportWritten == pc = "done" /\ out_opened

----------------------------------------------------------------------------
(* The claims *)

\* C1: the k-th call of gen_unique_id for a species key, direct or from
\* process_zoo_data, returns the prefix followed by k in decimal, padded
\* with zeros to two digits when k < 100 and unpadded when k >= 100.
C1_KthCallSuffix ==
    last_call.k > 0 =>
        LET prefix_len == IF Len(last_call.species) < 2 THEN Len(last_call.species) ELSE 2
            suffix == SubSeq(last_call.id, prefix_len + 1, Len(last_call.id))
        IN  /\ is_int(suffix)
            /\ to_int(suffix) = last_call.k
            /\ last_call.k < 100 => Len(suffix) = 2
            /\ last_call.k >= 100 => suffix[1] # "0"

\* the 100th or a later call for hyena, made by the second process_zoo_data
C1_Witness ==
    /\ pc = "loop" /\ idx = 2 /\ runs = 2
    /\ lines = <<LineHyena>>
    /\ last_call.key = <<"h", "y", "e", "n", "a">> /\ last_call.k >= 100

\* C2: per species key, the i-th animal of the input gets the i-th loaded
\* name while the pool lasts and "Unnamed" after it; the pool loses exactly
\* the names handed out.
C2_FifoNames ==
    \A key \in InputKeys :
        LET animals == IF dict_has(habitats, key) THEN dict_get(habitats, key) ELSE <<>>
            pool == IF dict_has(loaded_names, key) THEN dict_get(loaded_names, key) ELSE <<>>
            left == IF dict_has(species_names, key) THEN dict_get(species_names, key) ELSE <<>>
            used == IF Len(animals) < Len(pool) THEN Len(animals) ELSE Len(pool)
        IN  /\ Len(animals) = Cardinality(AnimalsOf(key))
            /\ \A i \in DOMAIN animals :
                  /\ animals[i].src \in AnimalsOf(key)
                  /\ Cardinality({j \in AnimalsOf(key) : j <= animals[i].src}) = i
                  /\ animals[i].text.name = IF i <= Len(pool) THEN pool[i] ELSE <<"U", "n", "n", "a", "m", "e", "d">>
            /\ left = SubSeq(pool, used + 1, Len(pool))

\* a species with a pool of names and more animals than names, written out
C2_Witness ==
    /\ ReportWritten
    /\ \E key \in InputKeys :
          /\ dict_has(loaded_names, key) /\ dict_has(habitats, key)
          /\ Len(dict_get(loaded_names, key)) >= 1
          /\ Len(dict_get(habitats, key)) > Len(dict_get(loaded_names, key))

\* C3: the report has one header per species of the input, hyena, lion,
\* bear, tiger first in that order, then the others as first met.
C3_HabitatOrder ==
    ReportWritten =>
        /\ Len(Headers) = Cardinality(PresentKeys)
        /\ \A key \in PresentKeys :
              Cardinality({i \in DOMAIN Headers : Headers[i].text = HeaderText(key)}) = 1
        /\ \A a, b \in PresentKeys :
              \A i, j \in DOMAIN Headers :
                  (Headers[i].text = HeaderText(a) /\ Headers[j].text = HeaderText(b)
                   /\ a # b /\ Before(a, b)) => i < j

\* lion, hyena, zebra arrive in that order and are written hyena, lion, zebra
C3_Witness ==
    /\ ReportWritten
    /\ lines = <<LineLion, LineHyena, LineZebra>>
    /\ [i \in DOMAIN Headers |-> Headers[i].text]
           = <<<<"H", "y", "e", "n", "a", " ", "H", "a", "b", "i", "t", "a", "t", ":">>, <<"L", "i", "o", "n", " ", "H", "a", "b", "i", "t", "a", "t", ":">>, <<"Z", "e", "b", "r", "a", " ", "H", "a", "b", "i", "t", "a", "t", ":">>>>

\* C4 as stated: a missing input file leaves no output file, no exception
\* and exactly one error notification.
C4_OneNotification ==
    (pc = "done" /\ ~input_exists) =>
        /\ ~out_opened
        /\ exc = "none"
        /\ Len(prints) = 1

\* C4 amended: a missing input file leaves no output file, no exception
\* and one notification for the input file, after one more from load_names
\* when the names file is missing too.
C4_NotificationPerMissingFile ==
    (pc = "done" /\ ~input_exists) =>
        /\ ~out_opened
        /\ out_content = <<>>
        /\ exc = "none"
        /\ prints = (IF names_file.exists THEN <<>> ELSE <<"Error: names file not found.">>)
                        \o <<"Error: Input file not found.">>

\* the input file is missing, the names file is not
C4_Witness ==
    /\ pc = "done" /\ ~input_exists /\ names_file.exists
    /\ Len(prints) = 1

\* C5: with the names file missing and a well-formed input of at least one
\* record, the pool is empty, nothing is raised, and every record is
\* written with the name "Unnamed".
C5_MissingNamesFile ==
    (pc = "done" /\ input_exists /\ ~names_file.exists /\ WellFormedInput
     /\ \E j \in DOMAIN lines : ~IsBlankLine(lines[j])) =>
        /\ loaded_names = <<>>
        /\ exc = "none"
        /\ out_opened
        /\ Written # <<>>
        /\ \A j \in DOMAIN lines :
              ~IsBlankLine(lines[j]) => \E i \in DOMAIN Written : Written[i].src = j
        /\ \A i \in DOMAIN Written : Written[i].text.name = <<"U", "n", "n", "a", "m", "e", "d">>

\* two records and a blank line written without a names file
C5_Witness ==
    /\ ReportWritten /\ input_exists /\ ~names_file.exists
    /\ lines = <<LineHyena, LineBlank, LineLion>>
    /\ Len(Written) = 2
    /\ Written[1].text.name = <<"U", "n", "n", "a", "m", "e", "d">>

\* C6: a line of the documented form parses to its age as an integer, its
\* sex, species, color and weight, the season after "born in" or "unknown"
\* without it, and the origin with its commas.
C6_ParsedFields ==
    p_out # <<>> =>
        /\ p_out[1].fault = "none"
        /\ p_out[1].age = p_line.age.value
        /\ p_out[1].sex = p_line.sex
        /\ p_out[1].species = p_line.species
        /\ p_out[1].season = (IF p_line.segment1.born THEN p_line.segment1.season
                              ELSE <<"u", "n", "k", "n", "o", "w", "n">>)
        /\ p_out[1].color = p_line.color
        /\ p_out[1].weight = p_line.weight
        /\ p_out[1].origin = p_line.origin

\* the line of the documentation, parsed
C6_Witness ==
    /\ p_out # <<>>
    /\ p_line.age.value = 4 /\ p_line.sex = <<"f", "e", "m", "a", "l", "e">> /\ p_line.species = <<"h", "y", "e", "n", "a">>
    /\ p_line.color = <<"t", "a", "n", " ", "c", "o", "l", "o", "r">>
    /\ p_out[1].age = 4
    /\ p_out[1].season = <<"s", "p", "r", "i", "n", "g">>
    /\ p_out[1].origin = <<"f", "r", "o", "m", " ", "F", "r", "i", "g", "u", "i", "a", " ", "P", "a", "r", "k", ",", " ", "T", "u", "n", "i", "s", "i", "a">>

\* C7: no two calls of gen_unique_id return the same identifier (every
\* call of a run leaves its identifier in habitats).
C7_IdsUnique ==
    \A a, b \in DOMAIN habitats :
        \A i \in DOMAIN habitats[a][2], j \in DOMAIN habitats[b][2] :
            <<a, i>> # <<b, j>> =>
                habitats[a][2][i].text.unique_id # habitats[b][2][j].text.unique_id

\* C8: every line of one report carries the same arrival date.
C8_OneArrivalDate ==
    ReportWritten =>
        \A i, j \in DOMAIN Written :
            Written[i].text.arrival_date = Written[j].text.arrival_date

\* C9 as stated: a line of fewer than 4 segments ends the call with an
\* index fault and nothing written.
C9_IndexFault ==
    (pc = "done" /\ input_exists /\ \E j \in DOMAIN lines : IsShortLine(lines[j])) =>
        /\ exc = "IndexError"
        /\ ~out_opened
        /\ out_content = <<>>

\* C9 amended: a line of fewer than 4 segments ends the call with an
\* uncaught fault and nothing written; the fault is the index fault unless
\* the first token of the first faulty line is no integer, and then it is
\* the conversion fault.
C9_UncaughtFault ==
    (pc = "done" /\ input_exists /\ \E j \in DOMAIN lines : IsShortLine(lines[j])) =>
        LET first == SetMin({j \in DOMAIN lines :
                                ~IsBlankLine(lines[j]) /\ lines[j] \notin WellFormedLines})
        IN  /\ exc = (IF IsDigit(lines[first][1]) THEN "IndexError" ELSE "ValueError")
            /\ idx = first
            /\ ~out_opened
            /\ out_content = <<>>

\* two valid lines are processed and lost when the third is short
C9_Witness ==
    /\ pc = "done" /\ exc = "IndexError" /\ ~out_opened
    /\ lines = <<LineHyena, LineLion, LineShort>>
    /\ Len(habitats) = 2

\* C10: for a well-formed input the report holds one line per non-blank
\* input line and none per blank line, under the header of its species,
\* and in input order within each habitat.
C10_OneLinePerRecord ==
    (pc = "done" /\ input_exists /\ WellFormedInput) =>
        /\ out_opened
        /\ \A j \in DOMAIN lines :
              Cardinality({i \in DOMAIN Written : Written[i].src = j})
                  = (IF IsBlankLine(lines[j]) THEN 0 ELSE 1)
        /\ \A i \in DOMAIN Written : Written[i].src \in DOMAIN lines
        /\ \A i \in DOMAIN out_content :
              out_content[i].kind = "animal" =>
                  HeaderOver(i) = HeaderText(LineKey(lines[out_content[i].src]))
        /\ \A i, j \in DOMAIN out_content :
              (out_content[i].kind = "animal" /\ out_content[j].kind = "animal"
               /\ HeaderOver(i) = HeaderOver(j) /\ i < j)
                  => out_content[i].src < out_content[j].src

\* two hyenas around a blank line, both written under one header
C10_Witness ==
    /\ ReportWritten
    /\ lines = <<LineHyena, LineBlank, LineHyena>>
    /\ Len(Written) = 2
    /\ Written[1].src = 1 /\ Written[2].src = 3

====
